---- MODULE Spec2Model ----
(***************************************************************************)
(* Model of the crypto-bot: the startup (initCoinList, bot.launch), the    *)
(* command handlers (/alert, /add, /remove, /watchlist, /price), the user  *)
(* store they share with the background alert checker, and the checker     *)
(* itself (the setInterval callback).                                      *)
(*                                                                         *)
(* Every `await` of the source is a step boundary: the synchronous code    *)
(* between two awaits is one atomic action (Node runs it to completion).   *)
(* A store operation takes effect at the step in which its await resumes.  *)
(* The store is the persistence interface the handlers consume: findOne /  *)
(* find read the persisted documents, save() of a loaded document writes   *)
(* that document back whole, save() of a new document inserts it under the *)
(* unique telegramId index.                                                *)
(***************************************************************************)
EXTENDS Integers, Sequences, FiniteSets, TLC

\* ------------------------------------------------------------- bounds
MaxAlertIds == 2       \* alert instances ever created
MaxListLen == 3        \* alerts of a user at the start of SpecStored

Users == {"u1", "u2"}
Ticks == {1, 2}        \* timer callbacks that can be in flight together
Cmds == {1, 2}         \* command handlers that can be in flight together
Prices == {0, 1, 2, 3} \* usd values the price source can return
AlertIds == 1..MaxAlertIds

\* ------------------------------------------------------------- inputs
RawSymbols == {"BTC", "eth"}
MixedSymbols == {"BTC", "btc", "Doge"}
PriceArgs == {"abc", "0", "2"}
SignedPriceArgs == {"abc", "0", "-1", "2"}
NoArg == "undefined"

\* String.prototype.toLowerCase on the inputs above
toLowerCase(s) == CASE s = "BTC" -> "btc" [] s = "Doge" -> "doge" [] OTHER -> s

\* parseFloat on the inputs above; NaN is [nan |-> TRUE]
parseFloat(s) ==
  CASE s = "0" -> [nan |-> FALSE, val |-> 0]
    [] s = "1" -> [nan |-> FALSE, val |-> 1]
    [] s = "2" -> [nan |-> FALSE, val |-> 2]
    [] s = "-1" -> [nan |-> FALSE, val |-> -1]
    [] OTHER -> [nan |-> TRUE, val |-> 0]

\* JS truthiness of a number: NaN and 0 are falsy
truthy(n) == ~n.nan /\ n.val # 0

\* the catalog of the price source (symbol -> id) and the empty map
Catalog == [s \in {"btc"} |-> "bitcoin"]
EmptyMap == [s \in {} |-> ""]

\* mutant: the lookup without the lowercasing
resolveAsTyped(map, rawInput) ==
  IF rawInput \in DOMAIN map THEN map[rawInput] ELSE rawInput

\* coinMap.has(inputLower) ? coinMap.get(inputLower) : inputLower
resolve(map, rawInput) ==
  LET inputLower == toLowerCase(rawInput)
  IN IF inputLower \in DOMAIN map THEN map[inputLower] ELSE inputLower

\* a response of GET /simple/price?ids=...: entries for some of the ids asked
Snapshots(ids) == UNION {[S -> Prices] : S \in SUBSET ids}
EmptyData == [c \in {} |-> 0]

\* ------------------------------------------------------------- state
VARIABLES
  db,            \* the users collection: telegramId -> document
  coinMap,       \* the in-memory symbol -> id map
  tick,          \* the alert-checker callbacks, per slot
  cmd,           \* the command handlers, per slot
  nextId,        \* next _id given to an alert subdocument
  sent,          \* history: the alert instances a notification was delivered for
  created,       \* history: the alert instances an /alert command has saved
  inserted,      \* history: telegramId -> number of user documents inserted
  boot           \* the startup: the initCoinList() calls and bot.launch()

vars == <<db, coinMap, tick, cmd, nextId, sent, created, inserted, boot>>

Range(s) == {s[i] : i \in DOMAIN s}
Last(q) == q[Len(q)]
Orders(S) == {s \in [1..Cardinality(S) -> S] : Range(s) = S}
AlertIdsOf(alerts) == {alerts[i].id : i \in DOMAIN alerts}

\* ------------------------------------------------------------- startup
InitCalls == {1, 2}    \* the initCoinList().then(...) statements of the script

\* one initCoinList() has loaded the catalog and its then() has launched the bot
Launched ==
  [call |-> [i \in InitCalls |-> IF i = 1 THEN "ok" ELSE "none"],
   launches |-> 1, lateWrites |-> 0]

\* the script has called initCoinList() for each of `calls`: requests in flight
Booting(calls) ==
  [call |-> [i \in InitCalls |-> IF i \in calls THEN "fetch" ELSE "none"],
   launches |-> 0, lateWrites |-> 0]

\* data.forEach(coin => coinMap.set(symbol, id)) on a map holding `map`
setAll(map, catalog) ==
  [k \in DOMAIN map \cup DOMAIN catalog |->
     IF k \in DOMAIN catalog THEN catalog[k] ELSE map[k]]

\* GET /coins/list resolves: the map is filled; then(): bot.launch()
InitCoinListOk(i) ==
  /\ boot.call[i] = "fetch"
  /\ coinMap' = setAll(coinMap, Catalog)
  /\ boot' = [boot EXCEPT !.call[i] = "ok", !.launches = @ + 1,
                          !.lateWrites = IF boot.launches > 0 THEN @ + 1 ELSE @]
  /\ UNCHANGED <<db, tick, cmd, nextId, sent, created, inserted>>

\* GET /coins/list rejects: the catch logs, the map is left as it is; then():
\* bot.launch()
InitCoinListFail(i) ==
  /\ boot.call[i] = "fetch"
  /\ boot' = [boot EXCEPT !.call[i] = "failed", !.launches = @ + 1]
  /\ UNCHANGED <<db, coinMap, tick, cmd, nextId, sent, created, inserted>>

\* ------------------------------------------------------------- store
\* new User({telegramId, firstName, favorites: []})
NewUser(u) == [telegramId |-> u, favorites |-> <<>>, alerts |-> <<>>]

\* User.findOne({telegramId}): the persisted document, or none
findOne(store, u) == IF u \in DOMAIN store THEN {store[u]} ELSE {}

\* User.find({"alerts.0": {$exists: true}}): the users with a non-empty alert list
find(store) == {u \in DOMAIN store : Len(store[u].alerts) > 0}

\* doc.save() of a loaded document: the document is written back
save(store, doc) == [store EXCEPT ![doc.telegramId] = doc]

\* mutant: no unique index
canInsertAlways(store, doc) == TRUE

\* doc.save() of a new document: an insert under the unique telegramId index
canInsert(store, doc) == doc.telegramId \notin DOMAIN store
insert(store, doc) == store @@ (doc.telegramId :> doc)

\* ------------------------------------------------------------- alert checker
\* data[alert.coinId]?.usd is usable: if (!price) is not taken
hasPrice(data, coinId) == coinId \in DOMAIN data /\ data[coinId] # 0

\* the CHECK CONDITION of the checker
fired(alert, price) ==
  \/ alert.direction = "above" /\ price >= alert.targetPrice
  \/ alert.direction = "below" /\ price <= alert.targetPrice

\* mutant: a missing price read as 0
classifyMissingAsZero(alert, data) ==
  LET price == IF alert.coinId \in DOMAIN data THEN data[alert.coinId] ELSE 0
  IN IF fired(alert, price) THEN "fired" ELSE "remaining"

\* what the loop body does with one alert
classify(alert, data) ==
  IF ~hasPrice(data, alert.coinId) THEN "remaining"
  ELSE IF fired(alert, data[alert.coinId]) THEN "fired"
  ELSE "remaining"

IdleTick ==
  [pc |-> "idle", users |-> <<>>, ids |-> {}, data |-> EmptyData, ui |-> 1, ai |-> 1,
   remainingAlerts |-> <<>>, alertTriggered |-> FALSE,
   \* history of this run
   notified |-> {}, saved |-> {}, readFired |-> FALSE, outcome |-> "none",
   fetches |-> 0, owed |-> {}, got |-> {}]

\* the callback has returned: its locals are gone, how it ended is remembered
Ended(s, outcome) ==
  [IdleTick EXCEPT !.pc = "done", !.outcome = outcome, !.fetches = s.fetches,
                   !.owed = s.owed, !.got = s.got]

TickInFlight(s) == s.pc \in {"find", "fetch", "send", "save"}
CmdInFlight(s) == s.pc \in {"fetch", "find", "create", "save"}

\* mutant: the loop without the alertTriggered guard, every user is saved
RECURSIVE RunLoopAlwaysSaves(_)
RunLoopAlwaysSaves(s) ==
  IF s.ui > Len(s.users) THEN Ended(s, "ok")
  ELSE LET user == s.users[s.ui] IN
    IF s.ai > Len(user.alerts)
    THEN [s EXCEPT !.pc = "save"]
    ELSE LET alert == user.alerts[s.ai] IN
      IF classify(alert, s.data) = "fired"
      THEN [s EXCEPT !.pc = "send"]
      ELSE RunLoopAlwaysSaves([s EXCEPT !.ai = @ + 1,
                                        !.remainingAlerts = Append(@, alert)])

\* the for-loops of the checker, run from (ui, ai) to the next await or the end
RECURSIVE RunLoop(_)
RunLoop(s) ==
  IF s.ui > Len(s.users) THEN Ended(s, "ok")
  ELSE LET user == s.users[s.ui] IN
    IF s.ai > Len(user.alerts)
    THEN IF s.alertTriggered
         THEN [s EXCEPT !.pc = "save"]
         ELSE RunLoop([s EXCEPT !.ui = @ + 1, !.ai = 1,
                                !.remainingAlerts = <<>>])
    ELSE LET alert == user.alerts[s.ai] IN
      IF classify(alert, s.data) = "fired"
      THEN [s EXCEPT !.pc = "send"]
      ELSE RunLoop([s EXCEPT !.ai = @ + 1,
                             !.remainingAlerts = Append(@, alert)])

\* setInterval fires the callback: User.find is issued
TickStart(t) ==
  /\ ~TickInFlight(tick[t])
  /\ \A t2 \in Ticks : t2 < t => TickInFlight(tick[t2])
  /\ tick' = [tick EXCEPT ![t] = [IdleTick EXCEPT !.pc = "find"]]
  /\ UNCHANGED <<db, coinMap, cmd, nextId, sent, created, inserted, boot>>

\* mutant: the ids of the first user only
coinSetFirstUser(users) ==
  {users[1].alerts[j].coinId : j \in DOMAIN users[1].alerts}

\* the coin ids the checker asks prices for
coinSet(users) ==
  UNION {{users[i].alerts[j].coinId : j \in DOMAIN users[i].alerts} : i \in DOMAIN users}

\* User.find resolves; no users: return; else the price request is issued
TickFindDone(t) ==
  /\ tick[t].pc = "find"
  /\ \E order \in Orders(find(db)) :
       LET users == [i \in DOMAIN order |-> db[order[i]]]
           seen == UNION {AlertIdsOf(users[i].alerts) : i \in DOMAIN users}
       IN tick' = [tick EXCEPT ![t] =
            IF Len(users) = 0
            THEN Ended(tick[t], "noUsers")
            ELSE [@ EXCEPT !.pc = "fetch", !.users = users,
                           !.ids = coinSet(users), !.fetches = @ + 1,
                           !.readFired = seen \cap sent # {}]]
  /\ UNCHANGED <<db, coinMap, cmd, nextId, sent, created, inserted, boot>>

\* history: the alerts of `users` whose CHECK CONDITION the prices of `data` meet
Met(users, data) ==
  UNION {{users[i].alerts[j].id : j \in {k \in DOMAIN users[i].alerts :
            /\ users[i].alerts[k].coinId \in DOMAIN data
            /\ fired(users[i].alerts[k], data[users[i].alerts[k].coinId])}} :
         i \in DOMAIN users}

\* mutant: a coin the response omits is read at the price 2
TickFetchOkDefaults(t) ==
  /\ tick[t].pc = "fetch"
  /\ \E data \in Snapshots(tick[t].ids) :
       tick' = [tick EXCEPT ![t] =
         RunLoop([@ EXCEPT !.data = [c \in tick[t].ids |->
                                      IF c \in DOMAIN data THEN data[c] ELSE 2],
                           !.owed = Met(tick[t].users, data),
                           !.got = DOMAIN data])]
  /\ UNCHANGED <<db, coinMap, cmd, nextId, sent, created, inserted, boot>>

\* axios.get resolves with a snapshot: the loop runs to its first await
TickFetchOk(t) ==
  /\ tick[t].pc = "fetch"
  /\ \E data \in Snapshots(tick[t].ids) :
       tick' = [tick EXCEPT ![t] =
         RunLoop([@ EXCEPT !.data = data, !.owed = Met(tick[t].users, data),
                           !.got = DOMAIN data])]
  /\ UNCHANGED <<db, coinMap, cmd, nextId, sent, created, inserted, boot>>

\* mutant: the failure is caught at the request and the loop runs on stale prices
TickFetchFailGoesOn(t) ==
  /\ tick[t].pc = "fetch"
  /\ tick' = [tick EXCEPT ![t] =
       [RunLoop([@ EXCEPT !.data = [c \in tick[t].ids |-> 1]])
          EXCEPT !.outcome = "fetchFailed"]]
  /\ UNCHANGED <<db, coinMap, cmd, nextId, sent, created, inserted, boot>>

\* axios.get rejects (429, timeout, ...): the catch of the callback logs it
TickFetchFail(t) ==
  /\ tick[t].pc = "fetch"
  /\ tick' = [tick EXCEPT ![t] = Ended(@, "fetchFailed")]
  /\ UNCHANGED <<db, coinMap, cmd, nextId, sent, created, inserted, boot>>

\* mutant: a notified alert is kept in remainingAlerts as well
TickSendOkKeepsAlert(t) ==
  /\ tick[t].pc = "send"
  /\ LET s == tick[t]
         alert == s.users[s.ui].alerts[s.ai]
     IN /\ sent' = sent \cup {alert.id}
        /\ tick' = [tick EXCEPT ![t] =
             RunLoop([s EXCEPT !.alertTriggered = TRUE, !.ai = @ + 1,
                               !.remainingAlerts = Append(@, alert),
                               !.notified = @ \cup {alert.id}])]
  /\ UNCHANGED <<db, coinMap, cmd, nextId, created, inserted, boot>>

\* bot.telegram.sendMessage resolves: alertTriggered = true, the loop goes on
TickSendOk(t) ==
  /\ tick[t].pc = "send"
  /\ LET s == tick[t]
         alert == s.users[s.ui].alerts[s.ai]
     IN /\ sent' = sent \cup {alert.id}
        /\ tick' = [tick EXCEPT ![t] =
             RunLoop([s EXCEPT !.alertTriggered = TRUE, !.ai = @ + 1,
                               !.notified = @ \cup {alert.id}])]
  /\ UNCHANGED <<db, coinMap, cmd, nextId, created, inserted, boot>>

\* mutant: a rejected send is swallowed and the alert counts as triggered
TickSendFailGoesOn(t) ==
  /\ tick[t].pc = "send"
  /\ LET s == tick[t]
     IN tick' = [tick EXCEPT ![t] =
          RunLoop([s EXCEPT !.alertTriggered = TRUE, !.ai = @ + 1])]
  /\ UNCHANGED <<db, coinMap, cmd, nextId, sent, created, inserted, boot>>

\* bot.telegram.sendMessage rejects: the catch of the callback logs it
TickSendFail(t) ==
  /\ tick[t].pc = "send"
  /\ LET s == tick[t]
         alert == s.users[s.ui].alerts[s.ai]
     IN tick' = [tick EXCEPT ![t] =
          Ended(s, "sendFailed")]
  /\ UNCHANGED <<db, coinMap, cmd, nextId, sent, created, inserted, boot>>

\* mutant: the save writes an empty alert list
TickSaveOkDropsAll(t) ==
  /\ tick[t].pc = "save"
  /\ LET s == tick[t]
         user == [s.users[s.ui] EXCEPT !.alerts = <<>>]
     IN /\ db' = save(db, user)
        /\ tick' = [tick EXCEPT ![t] =
             RunLoop([s EXCEPT !.ui = @ + 1, !.ai = 1, !.remainingAlerts = <<>>,
                               !.alertTriggered = FALSE,
                               !.saved = @ \cup {user.telegramId}])]
  /\ UNCHANGED <<coinMap, cmd, nextId, sent, created, inserted, boot>>

\* mutant: the save writes a document without the favorites
TickSaveOkClearsFavorites(t) ==
  /\ tick[t].pc = "save"
  /\ LET s == tick[t]
         user == [s.users[s.ui] EXCEPT !.alerts = s.remainingAlerts,
                                       !.favorites = <<>>]
     IN /\ db' = save(db, user)
        /\ tick' = [tick EXCEPT ![t] =
             RunLoop([s EXCEPT !.ui = @ + 1, !.ai = 1, !.remainingAlerts = <<>>,
                               !.alertTriggered = FALSE,
                               !.saved = @ \cup {user.telegramId}])]
  /\ UNCHANGED <<coinMap, cmd, nextId, sent, created, inserted, boot>>

\* user.alerts = remainingAlerts; user.save() resolves: on to the next user
TickSaveOk(t) ==
  /\ tick[t].pc = "save"
  /\ LET s == tick[t]
         user == [s.users[s.ui] EXCEPT !.alerts = s.remainingAlerts]
     IN /\ db' = save(db, user)
        /\ tick' = [tick EXCEPT ![t] =
             RunLoop([s EXCEPT !.ui = @ + 1, !.ai = 1, !.remainingAlerts = <<>>,
                               !.alertTriggered = FALSE,
                               !.saved = @ \cup {user.telegramId}])]
  /\ UNCHANGED <<coinMap, cmd, nextId, sent, created, inserted, boot>>

\* user.save() rejects: the catch of the callback logs it
TickSaveFail(t) ==
  /\ tick[t].pc = "save"
  /\ tick' = [tick EXCEPT ![t] = Ended(@, "saveFailed")]
  /\ UNCHANGED <<db, coinMap, cmd, nextId, sent, created, inserted, boot>>

\* ------------------------------------------------------------- commands
NoDoc == [telegramId |-> "", favorites |-> <<>>, alerts |-> <<>>]

IdleCmd ==
  [pc |-> "idle", kind |-> "none", user |-> "", rawInput |-> "", coinId |-> "",
   targetPrice |-> 0, priced |-> FALSE, currentPrice |-> 0, direction |-> "",
   doc |-> NoDoc, reply |-> ""]

\* ctx.reply(text): the handler returns, its locals are gone
Reply(s, text) == [IdleCmd EXCEPT !.pc = "done", !.kind = s.kind, !.reply = text]

\* mutant: the comparison made inclusive
directionOfInclusive(targetPrice, currentPrice) ==
  IF targetPrice >= currentPrice THEN "above" ELSE "below"

\* targetPrice > currentPrice ? "above" : "below"
directionOf(targetPrice, currentPrice) ==
  IF targetPrice > currentPrice THEN "above" ELSE "below"

\* mutant: the check for a coin already watched finds nothing
includesNever(favorites, coinId) == FALSE

\* user.favorites.includes(coinId)
includes(favorites, coinId) == \E i \in DOMAIN favorites : favorites[i] = coinId
filter(favorites, coinId) == SelectSeq(favorites, LAMBDA id : id # coinId)

\* the bot is launched and takes a command
CmdFree(c) ==
  /\ boot.launches > 0
  /\ ~CmdInFlight(cmd[c])
  /\ \A c2 \in Cmds : c2 < c => CmdInFlight(cmd[c2])

\* alerts a handler in flight may still push
PendingPushes ==
  Cardinality({c \in Cmds : cmd[c].kind = "alert" /\ cmd[c].pc \in {"fetch", "find", "create"}})

\* /alert <symbol> <price>: arguments are checked, the price request is issued
CmdAlert(c, u, rawCoin, arg) ==
  /\ CmdFree(c)
  /\ nextId + PendingPushes <= MaxAlertIds
  /\ LET targetPrice == parseFloat(arg)
         s == [IdleCmd EXCEPT !.kind = "alert", !.user = u]
     IN cmd' = [cmd EXCEPT ![c] =
          IF rawCoin = NoArg \/ ~truthy(targetPrice)
          THEN Reply(s, "usage")
          ELSE [s EXCEPT !.pc = "fetch", !.rawInput = rawCoin,
                         !.coinId = resolve(coinMap, rawCoin),
                         !.targetPrice = targetPrice.val]]
  /\ UNCHANGED <<db, coinMap, tick, nextId, sent, created, inserted, boot>>

\* /alert: the price arrives; coin unknown: reply; else direction, then getUser
AlertFetchOk(c) ==
  /\ cmd[c].kind = "alert" /\ cmd[c].pc = "fetch"
  /\ \E data \in Snapshots({cmd[c].coinId}) :
       cmd' = [cmd EXCEPT ![c] =
         IF cmd[c].coinId \notin DOMAIN data
         THEN Reply(@, "Coin not found.")
         ELSE [@ EXCEPT !.pc = "find", !.priced = TRUE,
                        !.currentPrice = data[cmd[c].coinId],
                        !.direction = directionOf(cmd[c].targetPrice,
                                                  data[cmd[c].coinId])]]
  /\ UNCHANGED <<db, coinMap, tick, nextId, sent, created, inserted, boot>>

\* mutant: the failure of the price request is swallowed, the handler goes on
AlertFetchFailGoesOn(c) ==
  /\ cmd[c].kind = "alert" /\ cmd[c].pc = "fetch"
  /\ cmd' = [cmd EXCEPT ![c] = [@ EXCEPT !.pc = "find", !.direction = "below"]]
  /\ UNCHANGED <<db, coinMap, tick, nextId, sent, created, inserted, boot>>

\* /alert: the price request fails: the catch replies
AlertFetchFail(c) ==
  /\ cmd[c].kind = "alert" /\ cmd[c].pc = "fetch"
  /\ cmd' = [cmd EXCEPT ![c] = Reply(@, "Error setting alert.")]
  /\ UNCHANGED <<db, coinMap, tick, nextId, sent, created, inserted, boot>>

\* /add <symbol> and /remove <symbol>: the argument is checked, getUser is called
CmdFavorite(c, kind, u, rawInput) ==
  /\ CmdFree(c)
  /\ LET s == [IdleCmd EXCEPT !.kind = kind, !.user = u]
     IN cmd' = [cmd EXCEPT ![c] =
          IF rawInput = NoArg
          THEN Reply(s, "usage")
          ELSE [s EXCEPT !.pc = "find", !.rawInput = rawInput,
                         !.coinId = resolve(coinMap, rawInput)]]
  /\ UNCHANGED <<db, coinMap, tick, nextId, sent, created, inserted, boot>>

\* /watchlist: getUser is called
CmdWatchlist(c, u) ==
  /\ CmdFree(c)
  /\ cmd' = [cmd EXCEPT ![c] =
       [IdleCmd EXCEPT !.kind = "watchlist", !.user = u, !.pc = "find"]]
  /\ UNCHANGED <<db, coinMap, tick, nextId, sent, created, inserted, boot>>

\* /price <symbol>: the argument is checked, the price request is issued
CmdPrice(c, u, rawInput) ==
  /\ CmdFree(c)
  /\ LET s == [IdleCmd EXCEPT !.kind = "price", !.user = u]
     IN cmd' = [cmd EXCEPT ![c] =
          IF rawInput = NoArg
          THEN Reply(s, "usage")
          ELSE [s EXCEPT !.pc = "fetch", !.rawInput = rawInput,
                         !.coinId = resolve(coinMap, rawInput)]]
  /\ UNCHANGED <<db, coinMap, tick, nextId, sent, created, inserted, boot>>

\* /watchlist, /price: the price response arrives: the reply
CmdFetchOk(c) ==
  /\ cmd[c].kind \in {"watchlist", "price"} /\ cmd[c].pc = "fetch"
  /\ \E data \in Snapshots(IF cmd[c].kind = "price" THEN {cmd[c].coinId}
                            ELSE Range(cmd[c].doc.favorites)) :
       cmd' = [cmd EXCEPT ![c] =
         IF cmd[c].kind = "price" /\ cmd[c].coinId \notin DOMAIN data
         THEN Reply(@, "Coin not found.")
         ELSE Reply(@, "prices")]
  /\ UNCHANGED <<db, coinMap, tick, nextId, sent, created, inserted, boot>>

\* /watchlist, /price: the price request fails: the catch replies
CmdFetchFail(c) ==
  /\ cmd[c].kind \in {"watchlist", "price"} /\ cmd[c].pc = "fetch"
  /\ cmd' = [cmd EXCEPT ![c] =
       Reply(@, IF cmd[c].kind = "price" THEN "API Error"
                ELSE "Failed to fetch watchlist.")]
  /\ UNCHANGED <<db, coinMap, tick, nextId, sent, created, inserted, boot>>

\* the handler's code after getUser has returned `doc`, up to its save or reply
AfterGetUser(s, doc, id) ==
  CASE s.kind = "alert" ->
         [s EXCEPT !.pc = "save",
                   !.doc = [doc EXCEPT !.alerts = Append(@,
                              [id |-> id, coinId |-> s.coinId,
                               targetPrice |-> s.targetPrice,
                               direction |-> s.direction])]]
    [] s.kind = "add" ->
         IF includes(doc.favorites, s.coinId)
         THEN Reply(s, "already watching")
         ELSE [s EXCEPT !.pc = "save",
                        !.doc = [doc EXCEPT !.favorites = Append(@, s.coinId)]]
    [] s.kind = "remove" ->
         IF ~includes(doc.favorites, s.coinId)
         THEN Reply(s, "not in your watch-list")
         ELSE [s EXCEPT !.pc = "save",
                        !.doc = [doc EXCEPT !.favorites = filter(@, s.coinId)]]
    [] s.kind = "watchlist" ->
         IF Len(doc.favorites) = 0
         THEN Reply(s, "Your watch-list is empty.")
         ELSE [s EXCEPT !.pc = "fetch", !.doc = doc]

\* what the handler's catch replies
CatchReply(kind) ==
  CASE kind = "alert" -> "Error setting alert."
    [] kind = "add" -> "Failed to add coin."
    [] kind = "remove" -> "Database error."
    [] kind = "watchlist" -> "Failed to fetch watchlist."

\* the alert subdocument pushed gets the next _id
Pushed(c, s2) ==
  IF cmd[c].kind = "alert" /\ s2.pc = "save"
  THEN nextId' = nextId + 1
  ELSE UNCHANGED nextId

\* getUser: findOne resolves; a user found is returned, else a new one is saved
CmdFindDone(c) ==
  /\ cmd[c].pc = "find"
  /\ LET found == findOne(db, cmd[c].user)
         s2 == IF found = {}
               THEN [cmd[c] EXCEPT !.pc = "create", !.doc = NewUser(cmd[c].user)]
               ELSE AfterGetUser(cmd[c], CHOOSE d \in found : TRUE, nextId)
     IN /\ cmd' = [cmd EXCEPT ![c] = s2]
        /\ Pushed(c, s2)
  /\ UNCHANGED <<db, coinMap, tick, sent, created, inserted, boot>>

\* getUser: the save of the new user resolves
CmdCreateDone(c) ==
  /\ cmd[c].pc = "create"
  /\ canInsert(db, cmd[c].doc)
  /\ db' = insert(db, cmd[c].doc)
  /\ inserted' = [inserted EXCEPT ![cmd[c].user] = @ + 1]
  /\ LET s2 == AfterGetUser(cmd[c], cmd[c].doc, nextId)
     IN /\ cmd' = [cmd EXCEPT ![c] = s2]
        /\ Pushed(c, s2)
  /\ UNCHANGED <<coinMap, tick, sent, created, boot>>

\* a store call of the handler (findOne, save) rejects: the catch replies
CmdStoreFail(c) ==
  /\ cmd[c].pc \in {"find", "create", "save"}
  /\ cmd' = [cmd EXCEPT ![c] = Reply(@, CatchReply(cmd[c].kind))]
  /\ UNCHANGED <<db, coinMap, tick, nextId, sent, created, inserted, boot>>

\* src/index.js and part_000: a store call of the handler rejects; /watchlist
\* calls getUser outside its try: the rejection leaves the handler, nothing is
\* replied
CmdStoreFailIndex(c) ==
  /\ cmd[c].pc \in {"find", "create", "save"}
  /\ cmd' = [cmd EXCEPT ![c] =
       IF cmd[c].kind = "watchlist"
       THEN [IdleCmd EXCEPT !.pc = "done", !.kind = "watchlist"]
       ELSE Reply(@, IF cmd[c].kind = "alert" THEN "Error setting alert."
                     ELSE "Database error.")]
  /\ UNCHANGED <<db, coinMap, tick, nextId, sent, created, inserted, boot>>

\* user.save() of the handler resolves: the success reply
CmdSaveDone(c) ==
  /\ cmd[c].pc = "save"
  /\ db' = save(db, cmd[c].doc)
  /\ created' = IF cmd[c].kind = "alert"
                THEN created \cup {Last(cmd[c].doc.alerts).id}
                ELSE created
  /\ cmd' = [cmd EXCEPT ![c] = Reply(@, "ok")]
  /\ UNCHANGED <<coinMap, tick, nextId, sent, inserted, boot>>

\* ------------------------------------------------------------- specification
\* the store is empty, the catalog is loaded, nothing is in flight
Init ==
  /\ db = [u \in {} |-> NoDoc]
  /\ coinMap = Catalog
  /\ tick = [t \in Ticks |-> IdleTick]
  /\ cmd = [c \in Cmds |-> IdleCmd]
  /\ nextId = 1
  /\ sent = {}
  /\ created = {}
  /\ inserted = [u \in Users |-> 0]
  /\ boot = Launched

TickNext(t) ==
  \/ TickStart(t) \/ TickFindDone(t) \/ TickFetchOk(t) \/ TickFetchFail(t)
  \/ TickSendOk(t) \/ TickSendFail(t) \/ TickSaveOk(t) \/ TickSaveFail(t)

AlertNext(c, users, symbols, args) ==
  \/ \E u \in users, rawCoin \in symbols, arg \in args : CmdAlert(c, u, rawCoin, arg)
  \/ AlertFetchOk(c) \/ AlertFetchFail(c)
  \/ CmdFindDone(c) \/ CmdCreateDone(c) \/ CmdStoreFail(c) \/ CmdSaveDone(c)

\* the checker, one callback at a time, and /alert commands, one at a time
Next ==
  TickNext(1) \/ AlertNext(1, Users, RawSymbols \cup {NoArg}, PriceArgs \cup {NoArg})

Spec == Init /\ [][Next]_vars

\* no command handler is ever in flight together with a checker callback
NextSerial ==
  \/ (\A c \in Cmds : ~CmdInFlight(cmd[c])) /\ TickNext(1)
  \/ (\A t \in Ticks : ~TickInFlight(tick[t]))
       /\ AlertNext(1, Users, RawSymbols \cup {NoArg}, PriceArgs \cup {NoArg})

SpecSerial == Init /\ [][NextSerial]_vars

\* setInterval does not wait for the callback's promise: a second callback may
\* start while the first is still at one of its awaits
NextOverlap ==
  (\E t \in Ticks : TickNext(t)) \/ AlertNext(1, {"u1"}, {"BTC"}, {"1", "2"})

SpecOverlap == Init /\ [][NextOverlap]_vars

\* the checker and /alert commands of one user, with signed price arguments
NextArgs ==
  TickNext(1) \/ AlertNext(1, {"u1"}, {"BTC"}, SignedPriceArgs \cup {NoArg})

SpecArgs == Init /\ [][NextArgs]_vars

\* a command handler: any of the five commands, and the steps of a handler
CmdNext(c, users, symbols, args) ==
  \/ AlertNext(c, users, symbols, args)
  \/ \E u \in users, rawInput \in symbols : CmdFavorite(c, "add", u, rawInput)
  \/ \E u \in users, rawInput \in symbols : CmdFavorite(c, "remove", u, rawInput)
  \/ \E u \in users : CmdWatchlist(c, u)
  \/ \E u \in users, rawInput \in symbols : CmdPrice(c, u, rawInput)
  \/ CmdFetchOk(c) \/ CmdFetchFail(c)

\* command handlers of one user running concurrently, no checker
NextCmds == \E c \in Cmds : CmdNext(c, {"u1"}, {"BTC", NoArg}, {"2", NoArg})

SpecCmds == Init /\ [][NextCmds]_vars

\* src/index.js: the script has called initCoinList(); no alerts, no checker
InitIndex ==
  /\ db = [u \in {} |-> NoDoc]
  /\ coinMap = EmptyMap
  /\ tick = [t \in Ticks |-> IdleTick]
  /\ cmd = [c \in Cmds |-> IdleCmd]
  /\ nextId = 1
  /\ sent = {}
  /\ created = {}
  /\ inserted = [u \in Users |-> 0]
  /\ boot = Booting({1})

IndexNext(c, users, symbols) ==
  \/ \E u \in users, rawInput \in symbols : CmdFavorite(c, "add", u, rawInput)
  \/ \E u \in users, rawInput \in symbols : CmdFavorite(c, "remove", u, rawInput)
  \/ \E u \in users : CmdWatchlist(c, u)
  \/ \E u \in users, rawInput \in symbols : CmdPrice(c, u, rawInput)
  \/ CmdFetchOk(c) \/ CmdFetchFail(c)
  \/ CmdFindDone(c) \/ CmdCreateDone(c) \/ CmdStoreFailIndex(c) \/ CmdSaveDone(c)

NextIndex ==
  \/ InitCoinListOk(1) \/ InitCoinListFail(1)
  \/ \E c \in Cmds : IndexNext(c, {"u1"}, MixedSymbols \cup {NoArg})

SpecIndex == InitIndex /\ [][NextIndex]_vars

\* src/unnamed/part_000: the script has called initCoinList() twice
InitTwice ==
  /\ db = [u \in {} |-> NoDoc]
  /\ coinMap = EmptyMap
  /\ tick = [t \in Ticks |-> IdleTick]
  /\ cmd = [c \in Cmds |-> IdleCmd]
  /\ nextId = 1
  /\ sent = {}
  /\ created = {}
  /\ inserted = [u \in Users |-> 0]
  /\ boot = Booting({1, 2})

NextTwice ==
  \/ \E i \in InitCalls : InitCoinListOk(i) \/ InitCoinListFail(i)
  \/ IndexNext(1, {"u1"}, {"BTC", NoArg})
  \/ \E arg \in {"2", NoArg} : CmdAlert(1, "u1", "BTC", arg)
  \/ AlertFetchOk(1) \/ AlertFetchFail(1)

SpecTwice == InitTwice /\ [][NextTwice]_vars

\* the alert lists /alert commands can have left in a user's document: the
\* n-th alert pushed has _id n
AlertLists ==
  UNION {{[i \in 1..n |-> [id |-> i, coinId |-> f[i][1], targetPrice |-> 2,
                           direction |-> f[i][2]]] :
            f \in [1..n -> {"bitcoin", "eth"} \X {"above", "below"}]} :
         n \in 1..MaxListLen}

\* u1 has set alerts, the bot is idle
InitStored ==
  /\ \E alerts \in AlertLists :
       /\ db = [u \in {"u1"} |-> [NewUser(u) EXCEPT !.alerts = alerts]]
       /\ nextId = Len(alerts) + 1
       /\ created = 1..Len(alerts)
  /\ coinMap = Catalog
  /\ tick = [t \in Ticks |-> IdleTick]
  /\ cmd = [c \in Cmds |-> IdleCmd]
  /\ sent = {}
  /\ inserted = [u \in Users |-> IF u = "u1" THEN 1 ELSE 0]
  /\ boot = Launched

\* the checker alone, one callback at a time, no command
NextStored == TickNext(1)

SpecStored == InitStored /\ [][NextStored]_vars

\* the checker and the /alert, /add and /remove commands of one user
NextFav ==
  \/ TickNext(1)
  \/ AlertNext(1, {"u1"}, {"BTC"}, {"2"})
  \/ CmdFavorite(1, "add", "u1", "BTC")
  \/ CmdFavorite(1, "remove", "u1", "BTC")

SpecFav == Init /\ [][NextFav]_vars

\* ------------------------------------------------------------- properties
InLoop(s) == s.pc \in {"send", "save"}
Persisted(store) == UNION {AlertIdsOf(store[u].alerts) : u \in DOMAIN store}

\* the alerts of the user being evaluated that the loop has already classified
Classified(s) == {j \in DOMAIN s.users[s.ui].alerts : j < s.ai}

\* C1: when no command handler is ever in flight together with a tick (SpecSerial),
\* no tick reads from the store an alert instance that a notification was already
\* sent for
C1_AtMostOnceFiring == \A t \in Ticks : ~tick[t].readFired

\* C2: when a failed send or save ends a tick, no user of the tick's query is
\* left unevaluated: the failing user was the last one
C2_PerUserIsolation ==
  [][\A t \in Ticks :
       (InLoop(tick[t]) /\ tick'[t].outcome \in {"sendFailed", "saveFailed"})
         => tick[t].ui = Len(tick[t].users)]_vars

\* C3: the step at which the price request of a tick fails ends that tick, with
\* no notification sent and no document written before or at that step
C3_BatchIsolation ==
  [][\A t \in Ticks :
       (tick[t].pc = "fetch" /\ tick'[t].outcome = "fetchFailed")
         => /\ tick'[t].pc = "done"
            /\ db' = db /\ sent' = sent
            /\ tick[t].notified = {} /\ tick[t].saved = {}]_vars

C3_Witness ==
  \E t \in Ticks : tick[t].pc = "done" /\ tick[t].outcome = "fetchFailed" /\ find(db) # {}

\* C4: a tick in which the send for a fired alert fails does not end with that
\* alert still among the user's persisted alerts
C4_NotifyFailureSwallowed ==
  [][\A t \in Ticks :
       (tick[t].pc = "send" /\ tick'[t].pc = "done")
         => LET user == tick[t].users[tick[t].ui]
                alert == user.alerts[tick[t].ai]
            IN alert.id \notin AlertIdsOf(db'[user.telegramId].alerts)]_vars

\* C5: at most one checker callback is in flight at any moment
C5_NoOverlap == Cardinality({t \in Ticks : TickInFlight(tick[t])}) <= 1

C7_FireCondition ==
  \A t \in Ticks : InLoop(tick[t]) =>
    LET s == tick[t]
        alerts == s.users[s.ui].alerts
    IN \A j \in Classified(s) :
         alerts[j].coinId \in DOMAIN s.data =>
           LET price == s.data[alerts[j].coinId]
           IN alerts[j].id \in s.notified
                <=> \/ alerts[j].direction = "above" /\ price >= alerts[j].targetPrice
                    \/ alerts[j].direction = "below" /\ price <= alerts[j].targetPrice

\* the alerts of the user being evaluated whose coin the snapshot has no entry for
Unpriced(s) == {j \in Classified(s) : s.users[s.ui].alerts[j].coinId \notin DOMAIN s.data}

\* C8: an alert whose coin has no entry in the snapshot is not notified and is
\* kept in remainingAlerts, and a save of the tick writes it back
C8_MissingPriceKept ==
  /\ [](\A t \in Ticks : InLoop(tick[t]) =>
          \A j \in Unpriced(tick[t]) :
            LET alert == tick[t].users[tick[t].ui].alerts[j]
            IN alert.id \notin tick[t].notified
               /\ alert \in Range(tick[t].remainingAlerts))
  /\ [][\A t \in Ticks : (tick[t].pc = "save" /\ db' # db) =>
          \A j \in Unpriced(tick[t]) :
            LET user == tick[t].users[tick[t].ui]
            IN user.alerts[j] \in Range(db'[user.telegramId].alerts)]_vars

C8_Witness ==
  \E t \in Ticks : tick[t].pc = "save" /\ Unpriced(tick[t]) # {}

\* C9: the alert /alert persists has direction above iff target > current price
\* (below otherwise, so below when they are equal), for positive prices
C9_DirectionInference ==
  [][\A c \in Cmds :
       (cmd[c].kind = "alert" /\ cmd[c].pc = "save" /\ cmd'[c].reply = "ok"
        /\ cmd[c].currentPrice > 0 /\ cmd[c].targetPrice > 0)
         => LET alert == Last(db'[cmd[c].user].alerts)
            IN /\ alert.targetPrice = cmd[c].targetPrice
               /\ alert.direction \in {"above", "below"}
               /\ alert.direction = "above"
                    <=> cmd[c].targetPrice > cmd[c].currentPrice]_vars

C9_Witness ==
  \E c \in Cmds :
    /\ cmd[c].kind = "alert" /\ cmd[c].pc = "save"
    /\ cmd[c].currentPrice > 0 /\ cmd[c].targetPrice = cmd[c].currentPrice
    /\ Last(cmd[c].doc.alerts).direction = "below"

\* the users of the snapshot with an alert this tick has notified
FiredUsers(s) ==
  {s.users[i].telegramId : i \in {k \in DOMAIN s.users :
     AlertIdsOf(s.users[k].alerts) \cap s.notified # {}}}

\* C10: a tick saves a user only if one of that user's alerts fired in that tick
C10_OnlyFiredUsersSaved ==
  \A t \in Ticks : TickInFlight(tick[t]) =>
    /\ tick[t].saved \subseteq FiredUsers(tick[t])
    /\ tick[t].pc = "save" => tick[t].users[tick[t].ui].telegramId \in FiredUsers(tick[t])

\* two users alert on the same coin, the first did not fire and was not saved,
\* the second fired: one notification, and the save at hand is the firing user's
C10_Witness ==
  \E t \in Ticks :
    /\ tick[t].pc = "save" /\ Len(tick[t].users) = 2 /\ tick[t].ui = 2
    /\ coinSet(tick[t].users) = {"bitcoin"}
    /\ tick[t].saved = {} /\ Cardinality(tick[t].notified) = 1

\* the coin ids of all alerts of all the users the query of a tick returns
QueriedCoinIds(store) ==
  UNION {{store[u].alerts[j].coinId : j \in DOMAIN store[u].alerts} : u \in find(store)}

\* C11: a tick whose query returns a user issues one price request, for the
\* union of the coin ids of all alerts of all returned users; a tick past its
\* query has issued exactly one request, also once it has ended after a failure
C11_OneBatchedFetch ==
  /\ [](\A t \in Ticks :
          /\ tick[t].pc \in {"fetch", "send", "save"} => tick[t].fetches = 1
          /\ tick[t].pc = "done" =>
               tick[t].fetches = IF tick[t].outcome = "noUsers" THEN 0 ELSE 1)
  /\ [][\A t \in Ticks :
          /\ (tick[t].pc = "find" /\ tick'[t].pc # "find" /\ find(db) # {})
               => tick'[t].pc = "fetch" /\ tick'[t].fetches = 1
                  /\ tick'[t].ids = QueriedCoinIds(db)
          /\ tick'[t].fetches > tick[t].fetches => tick[t].pc = "find"]_vars

\* the request of a tick that read two users asks for both users' coins
C11_Witness ==
  \E t \in Ticks :
    /\ tick[t].pc = "fetch" /\ Len(tick[t].users) = 2
    /\ tick[t].ids = {"bitcoin", "eth"} /\ tick[t].fetches = 1

\* the alert instances an /alert command saved (and confirmed to the user) that
\* are gone from the persisted alerts without a notification
Lost == created \ (Persisted(db) \cup sent)

C13_OneRecordPerIdentity == \A u \in Users : inserted[u] <= 1

\* two handlers found no document for u1; one has inserted it, the insert of
\* the other is still to come
C13_Witness ==
  \E c1, c2 \in Cmds :
    /\ c1 # c2 /\ cmd[c1].pc = "create" /\ cmd[c1].user \in DOMAIN db
    /\ inserted[cmd[c1].user] = 1 /\ cmd[c2].user = cmd[c1].user
    /\ cmd[c2].pc = "save"

\* C14: a tick whose price request, sends and saves all succeeded has notified
\* and removed from the persisted alerts every alert of its snapshot whose
\* condition the returned price met
C14_EventualNotification ==
  \A t \in Ticks :
    (tick[t].pc = "done" /\ tick[t].outcome = "ok")
      => \A id \in tick[t].owed : id \in sent /\ id \notin Persisted(db)

\* C15: a command handler that has ended has sent the user a reply
C15_AlwaysReply == \A c \in Cmds : cmd[c].pc = "done" => cmd[c].reply # ""

\* C16: an /alert handler gets to getUser and to its save only with a price
\* entry for its coin; a handler whose price request fails or returns no entry
\* for the coin ends at that step with the store unchanged; and a new alert
\* enters the persisted alerts only by the save of such a validated handler
C16_AlertValidated ==
  /\ [](\A c \in Cmds :
          (cmd[c].kind = "alert" /\ cmd[c].pc \in {"find", "create", "save"})
            => cmd[c].priced)
  /\ [][\A c \in Cmds :
          (cmd[c].kind = "alert" /\ cmd[c].pc = "fetch" /\ cmd'[c] # cmd[c]
           /\ ~cmd'[c].priced)
            => /\ cmd'[c].pc = "done"
               /\ cmd'[c].reply \in {"Coin not found.", "Error setting alert."}
               /\ db' = db]_vars
  /\ [][\A id \in (Persisted(db') \ Persisted(db)) \ created :
          \E c \in Cmds :
            /\ cmd[c].kind = "alert" /\ cmd[c].pc = "save" /\ cmd[c].priced
            /\ cmd'[c].reply = "ok"
            /\ id \in AlertIdsOf(cmd[c].doc.alerts)]_vars

\* /alert for a coin the price source has no entry for has ended, for a user
\* who has a document with alerts
C16_Witness ==
  \E c \in Cmds :
    /\ cmd[c].pc = "done" /\ cmd[c].reply = "Coin not found."
    /\ Persisted(db) # {}

\* C17: every persisted alert has a target price greater than 0
C17_PositiveTarget ==
  \A u \in DOMAIN db : \A j \in DOMAIN db[u].alerts : db[u].alerts[j].targetPrice > 0

\* the handler of a command with a symbol argument has just resolved it
Resolves(c) ==
  /\ ~CmdInFlight(cmd[c]) /\ CmdInFlight(cmd'[c])
  /\ cmd'[c].kind \in {"add", "remove", "price", "alert"}

\* C18: the coin id a handler works with is the CoinMap entry of the lowercased
\* argument when there is one and the lowercased argument otherwise, for every
\* argument (the handler goes on, resolution does not end it); after a failed
\* catalog request the CoinMap is empty and the id is the lowercased argument
C18_ResolutionFallback ==
  /\ [][\A c \in Cmds : Resolves(c) =>
          LET inputLower == toLowerCase(cmd'[c].rawInput)
          IN /\ cmd'[c].rawInput \in MixedSymbols \cup RawSymbols
             /\ inputLower \in DOMAIN coinMap => cmd'[c].coinId = coinMap[inputLower]
             /\ inputLower \notin DOMAIN coinMap => cmd'[c].coinId = inputLower
             /\ boot.call[1] = "failed" => cmd'[c].coinId = inputLower]_vars
  /\ []((\A i \in InitCalls : boot.call[i] \in {"none", "failed"})
          => coinMap = EmptyMap)

\* after a failed catalog request a handler works with "btc" for /add BTC
C18_Witness ==
  \E c \in Cmds :
    /\ boot.call[1] = "failed" /\ CmdInFlight(cmd[c])
    /\ cmd[c].rawInput = "BTC" /\ cmd[c].coinId = "btc"

\* C19: one catalog build fills the CoinMap, and the CoinMap is not written
\* once the bot is launched
C19_WrittenOnce ==
  /\ boot.lateWrites = 0
  /\ Cardinality({i \in InitCalls : boot.call[i] = "ok"}) <= 1

\* C20: an alert whose coin has an entry in the snapshot, the price 0
\* included, is kept as remaining only if the price does not meet its condition
C20_OnlyAbsenceIsMissing ==
  \A t \in Ticks : InLoop(tick[t]) =>
    LET s == tick[t]
        alerts == s.users[s.ui].alerts
    IN \A j \in Classified(s) :
         (alerts[j] \in Range(s.remainingAlerts) /\ alerts[j].coinId \in DOMAIN s.data)
           => ~fired(alerts[j], s.data[alerts[j].coinId])

\* the alerts of `alerts` a tick has not notified, in their order
Unfired(alerts, notified) == SelectSeq(alerts, LAMBDA a : a.id \notin notified)

\* C21: with no command writing, every alert the loop has classified is either
\* notified or in remainingAlerts, never both; remainingAlerts is the
\* sub-sequence of the classified alerts not notified, in the order read; an
\* alert is sent at most once in a tick; and a successful save leaves as the
\* user's persisted alerts the sub-sequence of the alerts read that did not fire
C21_Partition ==
  /\ [](\A t \in Ticks : InLoop(tick[t]) =>
          LET s == tick[t]
              alerts == s.users[s.ui].alerts
          IN /\ \A j \in Classified(s) :
                  (alerts[j].id \in s.notified) # (alerts[j] \in Range(s.remainingAlerts))
             /\ s.remainingAlerts = Unfired(SubSeq(alerts, 1, s.ai - 1), s.notified)
             /\ s.pc = "save" => s.ai = Len(alerts) + 1
             /\ s.pc = "send" => alerts[s.ai].id \notin s.notified)
  /\ [][\A t \in Ticks : (tick[t].pc = "save" /\ tick'[t].outcome # "saveFailed"
                            /\ tick'[t] # tick[t]) =>
          LET user == tick[t].users[tick[t].ui]
          IN db'[user.telegramId].alerts = Unfired(user.alerts, tick[t].notified)]_vars

\* of three alerts read the second fired: the first and the third are saved
C21_Witness ==
  \E t \in Ticks :
    /\ tick[t].pc = "save" /\ Len(tick[t].users[1].alerts) = 3
    /\ tick[t].notified = {2}
    /\ Len(tick[t].remainingAlerts) = 2
    /\ tick[t].remainingAlerts[1].id = 1 /\ tick[t].remainingAlerts[2].id = 3

\* C22: the step at which a tick receives a snapshot with no entry for any
\* coin it asked for ends the tick without an error, with no notification sent
\* and no document written, at that step or before it in the tick
C22_DegradedSnapshotNoOp ==
  [][\A t \in Ticks :
       (tick[t].pc = "fetch" /\ tick'[t].pc # "fetch"
        /\ tick'[t].outcome # "fetchFailed" /\ tick'[t].got = {})
         => /\ tick'[t].pc = "done" /\ tick'[t].outcome = "ok"
            /\ db' = db /\ sent' = sent
            /\ tick[t].notified = {} /\ tick[t].saved = {}]_vars

\* a tick that asked for the prices of two coins got an empty snapshot and has
\* ended
C22_Witness ==
  \E t \in Ticks :
    /\ tick[t].pc = "done" /\ tick[t].outcome = "ok" /\ tick[t].fetches = 1
    /\ tick[t].got = {} /\ QueriedCoinIds(db) = {"bitcoin", "eth"}

NoDuplicates(favorites) ==
  \A i, j \in DOMAIN favorites : favorites[i] = favorites[j] => i = j

AlertOf(store, id) ==
  CHOOSE a \in UNION {Range(store[u].alerts) : u \in DOMAIN store} : a.id = id

\* `sub` is `seq` with some elements left out
IsSubSeq(sub, seq) == sub = SelectSeq(seq, LAMBDA a : a \in Range(sub))

C25_NoRemovalWithoutNotification ==
  /\ [][\A t \in Ticks : (tick[t].pc = "save" /\ tick'[t] # tick[t]
                            /\ tick'[t].outcome # "saveFailed") =>
          LET user == tick[t].users[tick[t].ui]
          IN AlertIdsOf(user.alerts) \ AlertIdsOf(db'[user.telegramId].alerts)
               \subseteq (tick[t].notified \cap sent)]_vars
  /\ [][\A t \in Ticks : (tick'[t] # tick[t]
                            /\ ~(tick[t].pc = "save" /\ tick'[t].outcome # "saveFailed"))
          => db' = db]_vars

\* a tick has saved a user without the alert it read and notified for them,
\* and is now sending the notification of another user's alert, still persisted
C25_Witness ==
  \E t \in Ticks : \E u \in tick[t].saved :
    /\ tick[t].pc = "send"
    /\ tick[t].notified # {}
    /\ tick[t].notified \cap AlertIdsOf(db[u].alerts) = {}
    /\ LET user == tick[t].users[tick[t].ui]
       IN /\ user.telegramId # u
          /\ user.alerts[tick[t].ai].id \in AlertIdsOf(db[user.telegramId].alerts)

====
